---- MODULE Spec2Model ----
(***************************************************************************)
(* travesty.cantrips.error_aggregator: NestedException (a tree of error    *)
(* lists keyed by step name) and ErrorAggregator (the recorder built on    *)
(* one such tree).                                                         *)
(*                                                                         *)
(* Objects live in a heap: a NestedException is a node id, own_errors is   *)
(* a sequence of leaf failures, sub_errors an insertion-ordered sequence   *)
(* of (key, node id) pairs (the OrderedDict).  add_own / add_sub / merge   *)
(* call each other recursively and iterate over lists that the callee may  *)
(* be appending to, so they are executed one loop iteration at a time on   *)
(* an explicit call stack of merge frames.                                 *)
(***************************************************************************)
EXTENDS Integers, Sequences, FiniteSets, TLC

VARIABLES heap, stack, cur, pre, status, exn, ret, steps, ncalls,
          autoraise, scopes, thrown, log, snap

vars == <<heap, stack, cur, pre, status, exn, ret, steps, ncalls,
          autoraise, scopes, thrown, log, snap>>

(* ------------------------------ bounds -------------------------------- *)

\* A step that would allocate node MaxNodes+1 or make an own_errors list
\* longer than MaxOwn is not taken (only runs that never end get there).
MaxNodes == 20
MaxOwn == 6
\* Calls a caller makes on the tree API (Spec) / the aggregator API (SpecAgg).
MaxTreeCalls == 2
MaxAggCalls == 3
\* Steps a merge evaluated as a function (Run) may take.
MaxFuel == 60

(* ----------------------------- failures ------------------------------- *)

Keys == {"bar", "foo"}

\* The keys in the order Python's sorted() puts them.
SortedKeys == <<"bar", "foo">>

Leaf(cls, msg) == [cls |-> cls, msg |-> msg, node |-> 0]

\* A reference to the NestedException object at heap address n.
NestedRef(n) == [cls |-> "NestedException", msg |-> "", node |-> n]

LeafX == Leaf("ValueError", "x")
LeafZ == Leaf("KeyboardInterrupt", "z")
Leaves == {LeafX, LeafZ}

\* Python's exception classes: ValueError and NestedException derive from
\* Exception, KeyboardInterrupt only from BaseException.
Bases(cls) ==
    CASE cls = "ValueError" -> {"ValueError", "Exception", "BaseException"}
      [] cls = "NestedException" -> {"NestedException", "Exception", "BaseException"}
      [] cls = "KeyboardInterrupt" -> {"KeyboardInterrupt", "BaseException"}
      [] OTHER -> {cls}

isinstance(e, cls) == cls \in Bases(e.cls)

(* ------------------------- NestedException ---------------------------- *)

\* NestedException.__init__
EmptyNode == [own_errors |-> <<>>, sub_errors |-> <<>>]

Nodes(h) == 1..Len(h)

HasKey(h, n, k) == \E j \in 1..Len(h[n].sub_errors) : h[n].sub_errors[j].key = k

\* NestedException.__getitem__ with a key
getitem(h, n, k) ==
    LET j == CHOOSE j \in 1..Len(h[n].sub_errors) : h[n].sub_errors[j].key = k
    IN  h[n].sub_errors[j].val

\* NestedException.__nonzero__ mutated: looks at sub_errors only
nonzero_SubOnly(h, n) == h[n].sub_errors # <<>>

\* NestedException.__nonzero__
nonzero(h, n) == h[n].own_errors # <<>> \/ h[n].sub_errors # <<>>

\* The frame of a running merge(self, other): pc "own" is the first loop
\* (index i into other.own_errors, read live), pc "sub" the second (index i
\* into items, the list other.sub_errors.items() returned when the loop began).
MergeFrame(self, other) ==
    [self |-> self, other |-> other, pc |-> "own", i |-> 1, items |-> <<>>]

\* NestedException.add_own: the heap and stack after the call is entered.
add_own(h, st, self, exc) ==
    IF exc.cls = "NestedException"
    THEN [heap |-> h, stack |-> Append(st, MergeFrame(self, exc.node))]
    ELSE [heap |-> [h EXCEPT ![self].own_errors = Append(@, exc)], stack |-> st]

\* add_sub mutated: a missing key is bound to the argument itself
add_sub_Link(h, st, self, key, exc) ==
    IF HasKey(h, self, key) \/ exc.cls # "NestedException"
    THEN add_own(IF HasKey(h, self, key) THEN h
                 ELSE Append([h EXCEPT ![self].sub_errors =
                                 Append(@, [key |-> key, val |-> Len(h) + 1])],
                             EmptyNode),
                 st,
                 IF HasKey(h, self, key) THEN getitem(h, self, key) ELSE Len(h) + 1,
                 exc)
    ELSE [heap |-> [h EXCEPT ![self].sub_errors =
                       Append(@, [key |-> key, val |-> exc.node])],
          stack |-> st]

\* NestedException.add_sub: sub_errors.setdefault(key, type(self)()), then
\* add_own on the child.
add_sub(h, st, self, key, exc) ==
    LET present == HasKey(h, self, key)
        child == IF present THEN getitem(h, self, key) ELSE Len(h) + 1
        h1 == IF present THEN h
              ELSE Append([h EXCEPT ![self].sub_errors =
                              Append(@, [key |-> key, val |-> child])],
                          EmptyNode)
    IN  add_own(h1, st, child, exc)

\* merge mutated: the second loop stops after the first key
merge_FirstKeyOnly(h, st) ==
    LET f == st[Len(st)]
        rest == SubSeq(st, 1, Len(st) - 1)
    IN  IF f.pc = "own"
        THEN IF f.i <= Len(h[f.other].own_errors)
             THEN add_own(h, Append(rest, [f EXCEPT !.i = @ + 1]), f.self,
                          h[f.other].own_errors[f.i])
             ELSE [heap |-> h,
                   stack |-> Append(rest, [f EXCEPT !.pc = "sub", !.i = 1,
                                                    !.items = h[f.other].sub_errors])]
        ELSE IF f.i <= Len(f.items) /\ f.i <= 1
             THEN add_sub(h, Append(rest, [f EXCEPT !.i = @ + 1]), f.self,
                          f.items[f.i].key, NestedRef(f.items[f.i].val))
             ELSE [heap |-> h, stack |-> rest]

\* NestedException.merge: one iteration of the loop the top frame is in, or
\* the end of that loop.
merge(h, st) ==
    LET f == st[Len(st)]
        rest == SubSeq(st, 1, Len(st) - 1)
    IN  IF f.pc = "own"
        THEN IF f.i <= Len(h[f.other].own_errors)
             THEN add_own(h, Append(rest, [f EXCEPT !.i = @ + 1]), f.self,
                          h[f.other].own_errors[f.i])
             ELSE [heap |-> h,
                   stack |-> Append(rest, [f EXCEPT !.pc = "sub", !.i = 1,
                                                    !.items = h[f.other].sub_errors])]
        ELSE IF f.i <= Len(f.items)
             THEN add_sub(h, Append(rest, [f EXCEPT !.i = @ + 1]), f.self,
                          f.items[f.i].key, NestedRef(f.items[f.i].val))
             ELSE [heap |-> h, stack |-> rest]

\* The next step stays within MaxNodes and MaxOwn.
Fits(h, st) ==
    LET c == merge(h, st)
    IN  /\ Len(c.heap) <= MaxNodes
        /\ \A n \in Nodes(c.heap) : Len(c.heap[n].own_errors) <= MaxOwn

\* A call run to its end (or until the fuel is spent).
RECURSIVE Run(_, _, _)
Run(h, st, fuel) ==
    IF st = <<>> \/ fuel = 0
    THEN [heap |-> h, stack |-> st]
    ELSE LET c == merge(h, st) IN Run(c.heap, c.stack, fuel - 1)

(* ------------------------------ strings ------------------------------- *)

RECURSIVE join(_, _)
\* sep.join(parts)
join(sep, parts) ==
    IF parts = <<>> THEN ""
    ELSE IF Len(parts) = 1 THEN parts[1]
    ELSE parts[1] \o sep \o join(sep, Tail(parts))

KeyRank(k) == CHOOSE r \in 1..Len(SortedKeys) : SortedKeys[r] = k

RECURSIVE InsertByKey(_, _)
InsertByKey(p, s) ==
    IF s = <<>> THEN <<p>>
    ELSE IF KeyRank(p.key) < KeyRank(s[1].key) THEN <<p>> \o s
    ELSE <<s[1]>> \o InsertByKey(p, Tail(s))

\* sorted() mutated: the items stay in insertion order
sorted_Unsorted(items) == items

RECURSIVE sorted(_)
\* sorted(self.sub_errors.items()): the pairs by ascending key
sorted(items) ==
    IF items = <<>> THEN <<>>
    ELSE InsertByKey(items[1], sorted(Tail(items)))

\* NestedException.own_str
own_str(h, n) ==
    IF Len(h[n].own_errors) = 0 THEN "<no message>"
    ELSE join(", ", [j \in 1..Len(h[n].own_errors) |-> h[n].own_errors[j].msg])

RECURSIVE str(_, _)
\* NestedException.__str__
str(h, n) ==
    LET n_own == Len(h[n].own_errors)
        n_sub == Len(h[n].sub_errors)
        own == join(", ", [j \in 1..n_own |-> h[n].own_errors[j].msg])
        its == sorted(h[n].sub_errors)
        other == join(", ", [j \in 1..Len(its) |->
                                its[j].key \o ": [" \o str(h, its[j].val) \o "]"])
    IN  IF n_own + n_sub = 0 THEN "<no message>"
        ELSE join("; ", SelectSeq(<<own, other>>, LAMBDA x : x # ""))

(* --------------------------- ErrorAggregator -------------------------- *)

\* ErrorAggregator.error: the root tree, the first object constructed.
error == 1

\* ErrorAggregator.catch_type
catch_type == "Exception"

NoFailure == [cls |-> "None", msg |-> "", node |-> 0]

Call(op, self, key, exc, via) ==
    [op |-> op, self |-> self, key |-> key, exc |-> exc, via |-> via]

\* ErrorAggregator.has_errors
has_errors(h) == nonzero(h, error)

\* How a finished call ends. The tail of own_error / sub_error:
\* "if self.autoraise: raise self.error"; add_own / add_sub return.
Outcome(op) ==
    IF op \in {"own_error", "sub_error"} /\ autoraise THEN "raised" ELSE "returned"

\* own_error / sub_error mutated: raise the failure just recorded
Raised_Newest(c) == c.exc

\* What own_error / sub_error raise: self.error, the root object itself.
Raised(c) == NestedRef(error)

(* ------------------------------ actions ------------------------------- *)

\* No call is running and no exception is on its way to a with-block.
CanCall ==
    \/ status \in {"idle", "returned"}
    \/ status = "raised" /\ scopes = <<>>

InBounds(h) ==
    /\ Len(h) <= MaxNodes
    /\ \A n \in Nodes(h) : Len(h[n].own_errors) <= MaxOwn

\* A call c is entered; cfg is the heap and stack add_own / add_sub left.
Begin(c, cfg) ==
    /\ InBounds(cfg.heap)
    /\ heap' = cfg.heap
    /\ stack' = cfg.stack
    /\ pre' = heap
    /\ cur' = c
    /\ steps' = 0
    /\ ret' = FALSE
    /\ status' = IF cfg.stack = <<>> THEN Outcome(c.op) ELSE "running"
    /\ exn' = IF cfg.stack = <<>> /\ Outcome(c.op) = "raised" THEN Raised(c)
              ELSE NoFailure

\* One loop iteration of the innermost running merge.
Step ==
    /\ status = "running"
    /\ Fits(heap, stack)
    /\ LET c == merge(heap, stack)
       IN  /\ heap' = c.heap
           /\ stack' = c.stack
           /\ status' = IF c.stack = <<>> THEN Outcome(cur.op) ELSE "running"
           /\ exn' = IF c.stack = <<>> /\ Outcome(cur.op) = "raised" THEN Raised(cur)
                     ELSE NoFailure
    /\ steps' = steps + 1
    /\ UNCHANGED <<cur, pre, ret, ncalls, autoraise, scopes, thrown, log, snap>>

Failures(h) == Leaves \cup {NestedRef(m) : m \in Nodes(h)}

\* A caller's n.add_own(exc)
AddOwn ==
    /\ CanCall
    /\ ncalls < MaxTreeCalls
    /\ \E n \in Nodes(heap), exc \in Failures(heap) :
          Begin(Call("add_own", n, "", exc, ""), add_own(heap, <<>>, n, exc))
    /\ ncalls' = ncalls + 1
    /\ UNCHANGED <<autoraise, scopes, thrown, log, snap>>

\* A caller's n.add_sub(key, exc)
AddSub ==
    /\ CanCall
    /\ ncalls < MaxTreeCalls
    /\ \E n \in Nodes(heap), key \in Keys, exc \in Failures(heap) :
          Begin(Call("add_sub", n, key, exc, ""), add_sub(heap, <<>>, n, key, exc))
    /\ ncalls' = ncalls + 1
    /\ UNCHANGED <<autoraise, scopes, thrown, log, snap>>

(* ----------------------- aggregator actions --------------------------- *)

\* A failure a caller hands to the aggregator: a leaf, or the tree of
\* another NestedException (object 2).
Handed == Leaves \cup {NestedRef(2)}

\* ErrorAggregator.own_error
own_error(err, via) ==
    /\ Begin(Call("own_error", error, "", err, via),
             add_own(heap, <<>>, error, err))
    /\ log' = Append(log, [key |-> "", exc |-> err])

\* ErrorAggregator.sub_error
sub_error(key, err, via) ==
    /\ Begin(Call("sub_error", error, key, err, via),
             add_sub(heap, <<>>, error, key, err))
    /\ log' = Append(log, [key |-> key, exc |-> err])

\* A caller's eg.own_error(err)
OwnError ==
    /\ CanCall
    /\ ncalls < MaxAggCalls
    /\ \E err \in Handed : own_error(err, "")
    /\ ncalls' = ncalls + 1
    /\ UNCHANGED <<autoraise, scopes, thrown, snap>>

\* A caller's eg.sub_error(key, err)
SubError ==
    /\ CanCall
    /\ ncalls < MaxAggCalls
    /\ \E key \in Keys, err \in Handed : sub_error(key, err, "")
    /\ ncalls' = ncalls + 1
    /\ UNCHANGED <<autoraise, scopes, thrown, snap>>

\* A caller's eg.has_errors()
HasErrors ==
    /\ CanCall
    /\ ncalls < MaxAggCalls
    /\ ret' = has_errors(heap)
    /\ cur' = Call("has_errors", error, "", NoFailure, "")
    /\ pre' = heap
    /\ status' = "returned"
    /\ exn' = NoFailure
    /\ steps' = 0
    /\ ncalls' = ncalls + 1
    /\ UNCHANGED <<heap, stack, autoraise, scopes, thrown, log, snap>>

\* raise_if_any mutated: raises whether or not anything was recorded
RaiseIfAny_Always ==
    /\ CanCall
    /\ ncalls < MaxAggCalls
    /\ status' = "raised"
    /\ exn' = NestedRef(error)
    /\ ret' = FALSE
    /\ cur' = Call("raise_if_any", error, "", NoFailure, "")
    /\ pre' = heap
    /\ steps' = 0
    /\ ncalls' = ncalls + 1
    /\ UNCHANGED <<heap, stack, autoraise, scopes, thrown, log, snap>>

\* A caller's eg.raise_if_any()
RaiseIfAny ==
    /\ CanCall
    /\ ncalls < MaxAggCalls
    /\ IF has_errors(heap)
       THEN status' = "raised" /\ exn' = NestedRef(error)
       ELSE status' = "returned" /\ exn' = NoFailure
    /\ ret' = FALSE
    /\ cur' = Call("raise_if_any", error, "", NoFailure, "")
    /\ pre' = heap
    /\ steps' = 0
    /\ ncalls' = ncalls + 1
    /\ UNCHANGED <<heap, stack, autoraise, scopes, thrown, log, snap>>

\* A with-block is entered: the generator runs to its yield.
Enter(fn, key) ==
    /\ CanCall
    /\ ncalls < MaxAggCalls
    /\ scopes' = Append(scopes, [fn |-> fn, key |-> key])
    /\ cur' = Call(fn, error, key, NoFailure, "")
    /\ pre' = heap
    /\ status' = "returned"
    /\ exn' = NoFailure
    /\ ret' = FALSE
    /\ steps' = 0
    /\ ncalls' = ncalls + 1
    /\ UNCHANGED <<heap, stack, autoraise, thrown, log, snap>>

\* with eg.checking():
Checking == Enter("checking", "")

\* with eg.checking_sub(key):
CheckingSub == \E key \in Keys : Enter("checking_sub", key)

\* The body of the innermost with-block raises a failure of its own.
BodyRaises ==
    /\ status \in {"idle", "returned"}
    /\ scopes # <<>>
    /\ ncalls < MaxAggCalls
    /\ \E f \in Leaves : exn' = f
    /\ status' = "raised"
    /\ cur' = Call("body", error, "", NoFailure, "")
    /\ pre' = heap
    /\ ret' = FALSE
    /\ steps' = 0
    /\ ncalls' = ncalls + 1
    /\ UNCHANGED <<heap, stack, autoraise, scopes, thrown, log, snap>>

\* The body of the innermost with-block ends without a failure: the
\* generator resumes after its yield and returns.
BodyReturns ==
    /\ status \in {"idle", "returned"}
    /\ scopes # <<>>
    /\ scopes' = SubSeq(scopes, 1, Len(scopes) - 1)
    /\ cur' = Call("exit", error, scopes[Len(scopes)].key, NoFailure,
                   scopes[Len(scopes)].fn)
    /\ pre' = heap
    /\ status' = "returned"
    /\ exn' = NoFailure
    /\ ret' = FALSE
    /\ steps' = 0
    /\ UNCHANGED <<heap, stack, ncalls, autoraise, thrown, log, snap>>

\* The except clause mutated: every failure is caught
caught_All(e) == TRUE

\* "except self.catch_type as e"
caught(e) == isinstance(e, catch_type)

\* A failure reaches the innermost with-block and its except clause takes it:
\* checking hands it to own_error, checking_sub to sub_error.
Except ==
    /\ status = "raised"
    /\ scopes # <<>>
    /\ caught(exn)
    /\ LET s == scopes[Len(scopes)]
       IN  IF s.fn = "checking"
           THEN own_error(exn, s.fn)
           ELSE sub_error(s.key, exn, s.fn)
    /\ scopes' = SubSeq(scopes, 1, Len(scopes) - 1)
    /\ thrown' = exn
    /\ UNCHANGED <<ncalls, autoraise, snap>>

\* A failure reaches the innermost with-block and its except clause does not
\* match: the failure leaves the block as it came.
Propagate ==
    /\ status = "raised"
    /\ scopes # <<>>
    /\ ~caught(exn)
    /\ scopes' = SubSeq(scopes, 1, Len(scopes) - 1)
    /\ cur' = Call("propagate", error, scopes[Len(scopes)].key, exn,
                   scopes[Len(scopes)].fn)
    /\ pre' = heap
    /\ thrown' = exn
    /\ steps' = 0
    /\ UNCHANGED <<heap, stack, status, exn, ret, ncalls, autoraise, log, snap>>

\* ErrorAggregator(autoraise) and one other NestedException(), nothing
\* recorded yet.
InitAgg ==
    /\ heap = <<EmptyNode, EmptyNode>>
    /\ stack = <<>>
    /\ cur = Call("init", 0, "", NoFailure, "")
    /\ pre = heap
    /\ status = "idle"
    /\ exn = NoFailure
    /\ ret = FALSE
    /\ steps = 0
    /\ ncalls = 0
    /\ autoraise \in BOOLEAN
    /\ scopes = <<>>
    /\ thrown = NoFailure
    /\ log = <<>>
    /\ snap = <<>>

NextAgg ==
    \/ OwnError \/ SubError \/ HasErrors \/ RaiseIfAny
    \/ Checking \/ CheckingSub \/ BodyRaises \/ BodyReturns
    \/ Except \/ Propagate \/ Step

\* The aggregator API used on one ErrorAggregator.
SpecAgg == InitAgg /\ [][NextAgg]_vars

\* Three NestedException() objects, nothing recorded yet.
Init ==
    /\ heap = <<EmptyNode, EmptyNode, EmptyNode>>
    /\ stack = <<>>
    /\ cur = Call("init", 0, "", NoFailure, "")
    /\ pre = heap
    /\ status = "idle"
    /\ exn = NoFailure
    /\ ret = FALSE
    /\ steps = 0
    /\ ncalls = 0
    /\ autoraise = FALSE
    /\ scopes = <<>>
    /\ thrown = NoFailure
    /\ log = <<>>
    /\ snap = <<>>

Next == AddOwn \/ AddSub \/ Step

\* The tree API used on three trees that start empty.
Spec == Init /\ [][Next]_vars

(* ------------------- merges of trees built beforehand ----------------- *)

RECURSIVE Walk(_, _, _)
\* n[path[1]][path[2]]...
Walk(h, n, path) ==
    IF path = <<>> THEN n ELSE Walk(h, getitem(h, n, Head(path)), Tail(path))

\* One leaf failure added while a tree is built: root.add_own(leaf) for the
\* empty path, root[..].add_sub(key, leaf) for a path ending in key.
Put(path, leaf) == [path |-> path, leaf |-> leaf]

RECURSIVE Build(_, _, _)
\* The heap after the calls of a recipe have been made on the tree at root.
Build(h, root, recipe) ==
    IF recipe = <<>> THEN h
    ELSE LET op == Head(recipe)
             n == Len(op.path)
             h1 == IF n = 0 THEN add_own(h, <<>>, root, op.leaf).heap
                   ELSE add_sub(h, <<>>, Walk(h, root, SubSeq(op.path, 1, n - 1)),
                                op.path[n], op.leaf).heap
         IN  Build(h1, root, Tail(recipe))

\* The trees the merges start from: empty; one own failure; own and a child;
\* two children inserted out of key order; children three levels deep.
Recipes ==
    { <<>>,
      << Put(<<>>, LeafX) >>,
      << Put(<<"bar">>, LeafZ), Put(<<>>, LeafX) >>,
      << Put(<<"foo">>, LeafX), Put(<<"bar">>, LeafZ), Put(<<>>, LeafZ) >>,
      << Put(<<"foo">>, LeafX), Put(<<"foo", "foo">>, LeafX),
         Put(<<"foo", "bar">>, LeafZ), Put(<<"foo", "foo", "bar">>, LeafX) >> }

\* A caller's n.add_own(exc) or n.add_sub(key, exc) on the trees built.
MergeCall ==
    /\ status = "idle"
    /\ \E n \in Nodes(heap), exc \in Failures(heap) :
          \/ Begin(Call("add_own", n, "", exc, ""), add_own(heap, <<>>, n, exc))
          \/ \E key \in Keys :
                Begin(Call("add_sub", n, key, exc, ""),
                      add_sub(heap, <<>>, n, key, exc))
    /\ snap' = heap
    /\ ncalls' = ncalls + 1
    /\ UNCHANGED <<autoraise, scopes, thrown, log>>

\* After a.add_own(b) on the first two trees: a.add_own(c) with the third.
MergeThird ==
    /\ status = "returned"
    /\ cur = Call("add_own", 1, "", NestedRef(2), "")
    /\ Begin(Call("add_own", 1, "", NestedRef(3), "third"),
             add_own(heap, <<>>, 1, NestedRef(3)))
    /\ ncalls' = ncalls + 1
    /\ UNCHANGED <<autoraise, scopes, thrown, log, snap>>

\* Three trees a, b, c (objects 1, 2, 3), each built from a recipe.
InitMerge ==
    /\ \E ra \in Recipes, rb \in Recipes, rc \in Recipes :
          heap = Build(Build(Build(<<EmptyNode, EmptyNode, EmptyNode>>,
                                   1, ra), 2, rb), 3, rc)
    /\ stack = <<>>
    /\ cur = Call("init", 0, "", NoFailure, "")
    /\ pre = heap
    /\ status = "idle"
    /\ exn = NoFailure
    /\ ret = FALSE
    /\ steps = 0
    /\ ncalls = 0
    /\ autoraise = FALSE
    /\ scopes = <<>>
    /\ thrown = NoFailure
    /\ log = <<>>
    /\ snap = <<>>

NextMerge == MergeCall \/ MergeThird \/ Step

\* One call of the tree API, and the second merge of a chain, on trees built
\* beforehand.
SpecMerge == InitMerge /\ [][NextMerge]_vars

(* ---------------------- trees as values, for claims ------------------- *)

Kids(h, n) == {h[n].sub_errors[j].key : j \in 1..Len(h[n].sub_errors)}

Children(h, n) == {h[n].sub_errors[j].val : j \in 1..Len(h[n].sub_errors)}

RECURSIVE Closure(_, _, _)
Closure(h, S, fuel) ==
    IF fuel = 0 THEN S
    ELSE Closure(h, S \cup UNION {Children(h, m) : m \in S}, fuel - 1)

\* The nodes of the tree rooted at n.
Reach(h, n) == Closure(h, {n}, Len(h))

\* Two trees with no node in common.
Disjoint(h, n, m) == Reach(h, n) \cap Reach(h, m) = {}

\* Every node is the child of at most one (node, key): the heap is a forest.
Forest(h) ==
    \A n, m \in Nodes(h) :
       \A j \in 1..Len(h[n].sub_errors), l \in 1..Len(h[m].sub_errors) :
          /\ h[n].sub_errors[j].val = h[m].sub_errors[l].val => n = m /\ j = l
          /\ h[n].sub_errors[j].val > n

RECURSIVE TreeVal(_, _)
\* The tree rooted at n as a value: its own failures and, per key, the child.
TreeVal(h, n) ==
    [own |-> h[n].own_errors,
     kids |-> [k \in Kids(h, n) |-> TreeVal(h, getitem(h, n, k))]]

EmptyVal == [own |-> <<>>, kids |-> [k \in {} |-> 0]]

RECURSIVE Merged(_, _)
\* The merge of tree value b into tree value a, as the contract states it.
Merged(a, b) ==
    [own |-> a.own \o b.own,
     kids |-> [k \in DOMAIN a.kids \cup DOMAIN b.kids |->
                 IF k \in DOMAIN b.kids
                 THEN Merged(IF k \in DOMAIN a.kids THEN a.kids[k] ELSE EmptyVal,
                             b.kids[k])
                 ELSE a.kids[k]]]

RECURSIVE Below(_, _)
\* Tree value a holds nothing that b does not hold at the same place.
Below(a, b) ==
    /\ Len(a.own) <= Len(b.own)
    /\ SubSeq(b.own, 1, Len(a.own)) = a.own
    /\ DOMAIN a.kids \subseteq DOMAIN b.kids
    /\ \A k \in DOMAIN a.kids : Below(a.kids[k], b.kids[k])

RECURSIVE RecEmpty(_, _)
\* No failure anywhere in the tree rooted at n.
RecEmpty(h, n) ==
    /\ h[n].own_errors = <<>>
    /\ \A c \in Children(h, n) : RecEmpty(h, c)

RECURSIVE Work(_, _)
\* The loop iterations and loop exits of merging the tree rooted at n into a
\* tree it shares nothing with: per node, one iteration per own failure and
\* per child, and the two loop exits.
Work(h, n) ==
    LET kids == h[n].sub_errors
        W[j \in 0..Len(kids)] ==
            IF j = 0 THEN 0 ELSE W[j - 1] + Work(h, kids[j].val)
    IN  Len(h[n].own_errors) + Len(kids) + 2 + W[Len(kids)]

RECURSIVE OwnPart(_)
OwnPart(own) ==
    IF own = <<>> THEN ""
    ELSE IF Len(own) = 1 THEN own[1].msg
    ELSE OwnPart(SubSeq(own, 1, Len(own) - 1)) \o ", " \o own[Len(own)].msg

RECURSIVE Summary(_, _)
\* full_summary() as the contract states it: the keys present, taken in
\* ascending order.
Summary(h, n) ==
    LET present == SelectSeq(SortedKeys, LAMBDA k : k \in Kids(h, n))
        entry(k) == k \o ": [" \o Summary(h, getitem(h, n, k)) \o "]"
        K[j \in 0..Len(present)] ==
            IF j = 0 THEN ""
            ELSE IF j = 1 THEN entry(present[1])
            ELSE K[j - 1] \o ", " \o entry(present[j])
        own == OwnPart(h[n].own_errors)
        kids == K[Len(present)]
    IN  IF h[n].own_errors = <<>> /\ h[n].sub_errors = <<>> THEN "<no message>"
        ELSE IF kids = "" THEN own
        ELSE IF own = "" THEN kids
        ELSE own \o "; " \o kids

Finished == status \in {"returned", "raised"}

Recording == cur.op \in {"add_own", "add_sub", "own_error", "sub_error"}

(* ------------------------------- claims -------------------------------- *)

\* C1: whenever no call is running, every tree is empty by the code's test
\* (is_empty = not __nonzero__) exactly if its own list is empty and all its
\* children are recursively empty, and has_errors() is the negation of that
\* test on root.
C1_EmptyIffRecursivelyEmpty ==
    status # "running" =>
       /\ \A n \in Nodes(heap) : (~nonzero(heap, n)) <=> RecEmpty(heap, n)
       /\ has_errors(heap) <=> ~RecEmpty(heap, error)

\* C2: for distinct trees n and t, when n.add_own(t) has returned n is the
\* merge of the two trees as they were at the call: own lists concatenated,
\* children merged per key by the same rule, the other keys of n as they were.
C2_AddOwnIsMerge ==
    (/\ cur.op = "add_own" /\ cur.exc.cls = "NestedException"
     /\ cur.exc.node # cur.self /\ status = "returned") =>
       TreeVal(heap, cur.self)
          = Merged(TreeVal(pre, cur.self), TreeVal(pre, cur.exc.node))

\* The statement of C2 for trees that share no node.
AddOwnDisjointIsMerge ==
    (/\ cur.op = "add_own" /\ cur.exc.cls = "NestedException"
     /\ Disjoint(pre, cur.self, cur.exc.node)) =>
       LET want == Merged(TreeVal(pre, cur.self), TreeVal(pre, cur.exc.node))
           have == TreeVal(heap, cur.self)
       IN  /\ Below(have, want)
           /\ status = "returned" => have = want

\* C3: the string of every tree is "<no message>" when own and children are
\* both empty, and otherwise the own failures joined with ", " and the
\* "<key>: [<child string>]" entries in ascending key order joined with ", ",
\* the two parts joined with "; " and an empty part left out.
C3_StrSortedByKey ==
    \A n \in Nodes(heap) : str(heap, n) = Summary(heap, n)

h_sub(n) == heap[n].sub_errors

\* C3's case: children inserted as foo, then bar, rendered bar first.
C3_Witness ==
    \E n \in Nodes(heap) :
       /\ Len(h_sub(n)) = 2
       /\ h_sub(n)[1].key = "foo" /\ h_sub(n)[2].key = "bar"
       /\ str(heap, n) = "bar: [z], foo: [x]"

\* C6: every tree is empty when constructed; when a call that adds a leaf
\* failure, or a tree holding one, has returned, the receiving tree is not
\* empty; and no step of any operation makes a non-empty tree empty again.
C6_NeverEmptyAgain ==
    /\ \A n \in Nodes(heap) : ~nonzero(heap, n)
    /\ [](/\ Finished /\ Recording
          /\ (cur.exc.cls = "NestedException" => ~RecEmpty(pre, cur.exc.node))
          => nonzero(heap, cur.self))
    /\ [][\A n \in Nodes(heap) : nonzero(heap, n) => nonzero(heap', n)]_vars

\* C6's case: a tree that was empty before the call holds a failure after it.
C6_Witness ==
    /\ status = "returned" /\ cur.op = "add_sub" /\ cur.exc \in Leaves
    /\ ~nonzero(pre, cur.self)
    /\ nonzero(heap, cur.self)

\* The leaf failures recorded so far under key (under "": at root), in order.
Recorded(key) ==
    LET hits == SelectSeq(log, LAMBDA r : r.key = key /\ r.exc \in Leaves)
    IN  [j \in 1..Len(hits) |-> hits[j].exc]

OwnAt(h, n, key) ==
    IF key = "" THEN h[n].own_errors
    ELSE IF HasKey(h, n, key) THEN h[getitem(h, n, key)].own_errors
    ELSE <<>>

\* C4: with autoraise set, a finished own_error / sub_error (called directly
\* or by a with-block's except clause) has raised, what it raised is the root
\* object itself, and root holds every failure recorded so far on the
\* aggregator, the newest one last in its list.
C4_AutoraiseRaisesRoot ==
    (autoraise /\ cur.op \in {"own_error", "sub_error"} /\ status # "running") =>
       /\ status = "raised"
       /\ exn = NestedRef(error)
       /\ \A key \in Keys \cup {""} : OwnAt(heap, error, key) = Recorded(key)
       /\ cur.exc \in Leaves =>
             LET own == OwnAt(heap, error, cur.key)
             IN  own # <<>> /\ own[Len(own)] = cur.exc

\* C4's case: the second recording surfaces the first one too.
C4_Witness ==
    /\ autoraise /\ status = "raised" /\ cur.op = "sub_error" /\ cur.key = "foo"
    /\ exn = NestedRef(error)
    /\ str(heap, exn.node) = "x; foo: [z]"

\* The tree value v with leaf e recorded under key ("": at root).
WithLeaf(v, key, e) ==
    IF key = "" THEN [v EXCEPT !.own = Append(@, e)]
    ELSE [v EXCEPT !.kids =
             [k \in DOMAIN v.kids \cup {key} |->
                IF k # key THEN v.kids[k]
                ELSE IF key \in DOMAIN v.kids
                     THEN [v.kids[key] EXCEPT !.own = Append(@, e)]
                     ELSE [EmptyVal EXCEPT !.own = <<e>>]]]

\* C5: without autoraise, a failure of a caught kind that reaches a
\* with-block goes no further and is in root exactly once more than before,
\* at root for checking and under the key for checking_sub; a failure of
\* another kind leaves the block unchanged and root is as it was; a body that
\* ends without a failure leaves root as it was.
C5_ScopedCapture ==
    ~autoraise =>
       /\ (cur.via # "" /\ cur.op \in {"own_error", "sub_error"}) =>
             /\ isinstance(cur.exc, catch_type)
             /\ cur.exc = thrown
             /\ cur.op = (IF cur.via = "checking" THEN "own_error" ELSE "sub_error")
             /\ status # "running" => status = "returned"
             /\ cur.exc \in Leaves =>
                   /\ status = "returned"
                   /\ TreeVal(heap, error)
                         = WithLeaf(TreeVal(pre, error), cur.key, cur.exc)
       /\ cur.op = "propagate" =>
             /\ ~isinstance(thrown, catch_type)
             /\ status = "raised" /\ exn = thrown
             /\ heap = pre
       /\ cur.op = "exit" => status = "returned" /\ heap = pre

\* C5's case: a caught failure recorded under the key of checking_sub.
C5_Witness ==
    /\ ~autoraise /\ cur.via = "checking_sub" /\ cur.op = "sub_error"
    /\ status = "returned" /\ cur.exc = LeafX
    /\ Len(OwnAt(heap, error, cur.key)) = Len(OwnAt(pre, error, cur.key)) + 1

\* C7: a finished raise_if_any() has raised the root object if has_errors()
\* was true when it was called and has returned otherwise, it returns when
\* nothing was ever recorded, and it leaves every tree as it was.
C7_RaiseIfAny ==
    cur.op = "raise_if_any" =>
       /\ heap = pre
       /\ status \in {"raised", "returned"}
       /\ status = "raised" <=> nonzero(pre, error)
       /\ status = "raised" => exn = NestedRef(error)
       /\ log = <<>> => status = "returned"

\* C7's case: raise_if_any() raising a root whose only failure is a child's.
C7_Witness ==
    /\ cur.op = "raise_if_any" /\ status = "raised"
    /\ heap[error].own_errors = <<>>
    /\ ~RecEmpty(heap, error)

\* C7's other case: raise_if_any() returning on an unused aggregator.
C7_WitnessNoop == cur.op = "raise_if_any" /\ status = "returned" /\ log = <<>>

\* C9: a running add_own / add_sub / own_error / sub_error has taken no more
\* steps than the failure it was given has elements to go through (none for
\* a leaf), so it ends.
C9_CallEnds ==
    Recording =>
       steps <= (IF cur.exc.cls = "NestedException" THEN Work(pre, cur.exc.node)
                 ELSE 0)

\* The statement of C9 for a tree merged into one it shares no node with.
DisjointCallEnds ==
    (Recording /\ cur.exc.cls = "NestedException"
       /\ Disjoint(pre, cur.self, cur.exc.node)) =>
       /\ steps <= Work(pre, cur.exc.node)
       /\ status # "running" => steps = Work(pre, cur.exc.node)

\* b.add_own(c) and then a.add_own(b), evaluated on heap h.
RightFirst(h) ==
    LET bc == Run(h, add_own(h, <<>>, 2, NestedRef(3)).stack, MaxFuel)
    IN  Run(bc.heap, add_own(bc.heap, <<>>, 1, NestedRef(2)).stack, MaxFuel)

C10_ArgumentUntouched ==
    /\ (Recording /\ cur.exc.cls = "NestedException"
          /\ Disjoint(pre, cur.self, cur.exc.node)) =>
          /\ \A m \in Reach(pre, cur.exc.node) : heap[m] = pre[m]
          /\ Disjoint(heap, cur.self, cur.exc.node)
          /\ Forest(heap)
          /\ str(heap, cur.exc.node) = str(pre, cur.exc.node)
    /\ Recording =>
          \A m \in Nodes(pre) \ Reach(pre, cur.self) : heap[m] = pre[m]

\* C10's case: a tree with children merged under a key the receiver lacked.
C10_Witness ==
    /\ status = "returned" /\ cur.op = "add_sub" /\ cur.exc.cls = "NestedException"
    /\ Disjoint(pre, cur.self, cur.exc.node)
    /\ ~HasKey(pre, cur.self, cur.key)
    /\ pre[cur.exc.node].sub_errors # <<>>
    /\ pre[cur.self].own_errors # <<>>

====
